---- MODULE Spec2Model ----
\* Map-style reducer of kepler.gl (src/reducers/map-style-updaters.js).
\*
\* JavaScript objects are functions from key strings to values; a key that is
\* not in the DOMAIN is an absent (undefined) property.  null is the record
\* Null for object-valued properties and the string "null" for string-valued
\* ones; the value undefined of a string-valued property is "undefined".
EXTENDS Integers, Sequences, FiniteSets, TLC

VARIABLES state, tasks

vars == <<state, tasks>>

\* ---------------------------------------------------------------- bounds
\* Largest number of load batches in flight at once.
MaxTasks == 2

\* ------------------------------------------------------------ JS helpers
EmptyObj == [k \in {} |-> TRUE]

Null == [kind |-> "null"]

\* {...a, ...b}
Merge(a, b) ==
  [k \in (DOMAIN a) \cup (DOMAIN b) |-> IF k \in DOMAIN b THEN b[k] ELSE a[k]]

\* truthiness of obj[key] for a boolean-valued property (undefined is falsy)
Truthy(obj, key) == key \in DOMAIN obj /\ obj[key]

\* ----------------------------------------------------- default settings
\* constants/default-settings: every layer group has a slug, a filter over
\* layers (here: the set of layer ids it matches) and a default visibility.
DEFAULT_LAYER_GROUPS ==
  { [slug |-> "label",  ids |-> {"place-label"},  defaultVisibility |-> TRUE],
    [slug |-> "border", ids |-> {"admin-border"}, defaultVisibility |-> FALSE] }

\* preset style definitions: registered without a style document
DEFAULT_MAP_STYLES ==
  { [id |-> "light", label |-> "Light", url |-> "mapbox://styles/light",
     layerGroups |-> DEFAULT_LAYER_GROUPS],
    [id |-> "dark", label |-> "Dark", url |-> "mapbox://styles/dark",
     layerGroups |-> DEFAULT_LAYER_GROUPS] }

\* '#D1CEC7'
DEFAULT_BLDG_COLOR == <<209, 206, 199>>

\* Colors derived by d3-color are not integers: channels are kept in units of
\* 1/ColorScale.
ColorScale == 1000

\* ColorScale * 0.7^0.2 and ColorScale * (1/0.7)^0.2, the factors of
\* darker(0.2) and brighter(0.2)
DarkerK == 931
BrighterK == 1074

hexToRgb(c) == <<c[1] * ColorScale, c[2] * ColorScale, c[3] * ColorScale>>

\* ------------------------------------------------------ style documents
DocA ==
  [kind |-> "doc", name |-> "A",
   layers |-> << [id |-> "background", visible |-> TRUE, bg |-> <<250, 250, 250>>],
                 [id |-> "place-label", visible |-> TRUE],
                 [id |-> "admin-border", visible |-> TRUE],
                 [id |-> "hillshade", visible |-> TRUE] >>]

DocB ==
  [kind |-> "doc", id |-> "c1", name |-> "B",
   layers |-> << [id |-> "place-label", visible |-> TRUE],
                 [id |-> "water", visible |-> FALSE] >>]

\* a malformed document: no layers property
DocNoLayers == [kind |-> "doc", name |-> "N"]

Docs == {DocA, DocB, DocNoLayers}

Layers(doc) == IF "layers" \in DOMAIN doc THEN doc.layers ELSE <<>>

\* Immutable.fromJS: rebuilds the document node by node
fromJS(doc) ==
  [k \in DOMAIN doc |->
     IF k = "layers"
     THEN [i \in 1..Len(doc.layers) |->
             [f \in DOMAIN doc.layers[i] |-> doc.layers[i][f]]]
     ELSE doc[k]]

\* JSON.parse(JSON.stringify(style)): a deep copy of the plain document
jsonCopy(doc) == fromJS(doc)

\* ------------------------------------------- mapbox-gl-style-editor utils
\* the layer group a layer belongs to: the groups whose filter matches it
GroupsOfLayer(layer) == {lg.slug : lg \in {g \in DEFAULT_LAYER_GROUPS : layer.id \in g.ids}}

\* getDefaultLayerGroupVisibility({layerGroups = []}): slug -> defaultVisibility
getDefaultLayerGroupVisibility(mapStyle) ==
  LET layerGroups == IF "layerGroups" \in DOMAIN mapStyle THEN mapStyle.layerGroups ELSE {}
  IN  [slug \in {lg.slug : lg \in layerGroups} |->
         (CHOOSE lg \in layerGroups : lg.slug = slug).defaultVisibility]

\* mergeLayerGroupVisibility(defaultLayerGroup, currentLayerGroup): the groups
\* of the default, each with the current value when the current map has it
mergeLayerGroupVisibility(defaultLayerGroup, currentLayerGroup) ==
  [g \in DOMAIN defaultLayerGroup |->
     IF g \in DOMAIN currentLayerGroup THEN currentLayerGroup[g]
     ELSE defaultLayerGroup[g]]

\* The Style Editor: every layer of a known group gets the visibility the map
\* gives its group, the other layers and the layer order are kept; a document
\* without layers has nothing to rewrite.
editMapStyle(mapStyle, visibleLayerGroups) ==
  LET doc == mapStyle.style
  IN  [k \in DOMAIN doc |->
         IF k = "layers"
         THEN [i \in 1..Len(doc.layers) |->
                 LET layer == doc.layers[i]
                 IN  IF GroupsOfLayer(layer) = {} THEN layer
                     ELSE [layer EXCEPT !.visible =
                             \E g \in GroupsOfLayer(layer) : Truthy(visibleLayerGroups, g)]]
         ELSE doc[k]]

\* bottom: an empty map means "not yet customized" and leaves the document as is
editBottomMapStyle(id, mapStyle, visibleLayerGroups) ==
  IF DOMAIN visibleLayerGroups = {} THEN mapStyle.style
  ELSE editMapStyle(mapStyle, visibleLayerGroups)

editTopMapStyle(id, mapStyle, visibleLayerGroups) ==
  editMapStyle(mapStyle, visibleLayerGroups)

ValidUrls == {"mapbox://styles/c1"}

isValidStyleUrl(url) == url \in ValidUrls

getStyleDownloadUrl(url, accessToken) == <<url, accessToken>>

\* generateHashId(): a fresh random id
HashIds == {"h1"}

\* ------------------------------------------------------- derived styles
\* style.id.match(/(?=(dark|night))/)
DarkIds == {"dark"}

\* a channel c scaled by the factor k / ColorScale, in units of 1/ColorScale
Channel(c, k) == c * k

\* get3DBuildingColor(style), lines 172-181; rgb(c).darker/brighter multiply
\* each channel by the factor and neither round nor clamp
get3DBuildingColor(style) ==
  LET layers == Layers(style.style)
      backgroundLayers == {i \in 1..Len(layers) : layers[i].id = "background"}
      backgroundLayer == layers[CHOOSE i \in backgroundLayers : \A j \in backgroundLayers : i <= j]
      buildingColor == IF backgroundLayers # {} /\ "bg" \in DOMAIN backgroundLayer
                       THEN backgroundLayer.bg ELSE DEFAULT_BLDG_COLOR
      k == IF style.id \in DarkIds THEN BrighterK ELSE DarkerK
  IN  <<Channel(buildingColor[1], k), Channel(buildingColor[2], k), Channel(buildingColor[3], k)>>

\* mapStyles[id] && mapStyles[id].style
Resolved(mapStyles, id) ==
  /\ id \in DOMAIN mapStyles
  /\ "style" \in DOMAIN mapStyles[id]
  /\ mapStyles[id].style # Null

\* mutant: the top visibility is passed on without the bottom mask
TopLayers_Unmasked(topLayerGroups, visibleLayerGroups) == topLayerGroups

\* lines 151-159: the visibility handed to the top edit (by truthiness)
TopLayers(topLayerGroups, visibleLayerGroups) ==
  [key \in DOMAIN topLayerGroups |->
     topLayerGroups[key] /\ Truthy(visibleLayerGroups, key)]

\* mutant: the top style is built whenever a top group is on, customized
\* or not
getMapStyles_TopUngated(s) ==
  IF ~Resolved(s.mapStyles, s.styleType) THEN EmptyObj
  ELSE
    LET mapStyle == s.mapStyles[s.styleType]
        editable == Cardinality(DOMAIN s.visibleLayerGroups)
        hasTopLayer == \E g \in DOMAIN s.topLayerGroups : s.topLayerGroups[g]
    IN  [bottomMapStyle |->
           IF editable = 0 THEN fromJS(mapStyle.style)
           ELSE editBottomMapStyle(s.styleType, mapStyle, s.visibleLayerGroups),
         topMapStyle |->
           IF hasTopLayer
           THEN editTopMapStyle(s.styleType, mapStyle,
                                TopLayers(s.topLayerGroups, s.visibleLayerGroups))
           ELSE Null,
         editable |-> editable,
         threeDBuildingColor |-> get3DBuildingColor(mapStyle)]

\* mutant: the bottom style is edited even when nothing is customized
getMapStyles_NoFastPath(s) ==
  IF ~Resolved(s.mapStyles, s.styleType) THEN EmptyObj
  ELSE
    LET mapStyle == s.mapStyles[s.styleType]
    IN  [bottomMapStyle |-> editMapStyle(mapStyle, s.visibleLayerGroups),
         topMapStyle |-> Null,
         editable |-> Cardinality(DOMAIN s.visibleLayerGroups),
         threeDBuildingColor |-> get3DBuildingColor(mapStyle)]

\* getMapStyles, lines 125-170
getMapStyles(s) ==
  IF ~Resolved(s.mapStyles, s.styleType) THEN EmptyObj
  ELSE
    LET mapStyle == s.mapStyles[s.styleType]
        editable == Cardinality(DOMAIN s.visibleLayerGroups)
        bottomMapStyle ==
          IF editable = 0 THEN fromJS(mapStyle.style)
          ELSE editBottomMapStyle(s.styleType, mapStyle, s.visibleLayerGroups)
        hasTopLayer ==
          /\ editable # 0
          /\ \E g \in DOMAIN s.topLayerGroups : s.topLayerGroups[g]
        topMapStyle ==
          IF hasTopLayer
          THEN editTopMapStyle(s.styleType, mapStyle,
                               TopLayers(s.topLayerGroups, s.visibleLayerGroups))
          ELSE Null
    IN  [bottomMapStyle |-> bottomMapStyle,
         topMapStyle |-> topMapStyle,
         editable |-> editable,
         threeDBuildingColor |-> get3DBuildingColor(mapStyle)]

\* getLayerGroupsFromStyle, lines 183-185; style.layers.filter throws a
\* TypeError on a document without layers
getLayerGroupsFromStyleThrows(style) == "layers" \notin DOMAIN style

getLayerGroupsFromStyle(style) ==
  {lg \in DEFAULT_LAYER_GROUPS :
     \E i \in 1..Len(style.layers) : style.layers[i].id \in lg.ids}

\* -------------------------------------------------------------- updaters
\* getInitialInputStyle, lines 435-445
getInitialInputStyle ==
  [accessToken |-> "null", error |-> FALSE, isValid |-> FALSE, label |-> "null",
   style |-> Null, url |-> "null", custom |-> TRUE]

\* getDefaultState, lines 42-60
getDefaultState ==
  [styleType |-> "light",
   visibleLayerGroups |-> EmptyObj,
   topLayerGroups |-> EmptyObj,
   mapStyles |-> [id \in {curr.id : curr \in DEFAULT_MAP_STYLES} |->
                    CHOOSE curr \in DEFAULT_MAP_STYLES : curr.id = id],
   mapboxApiAccessToken |-> "null",
   inputStyle |-> getInitialInputStyle,
   threeDBuildingColor |-> hexToRgb(DEFAULT_BLDG_COLOR)]

INITIAL_MAP_STYLE == getDefaultState

\* initMapStyleUpdater, lines 198-202
initMapStyleUpdater(s, payload) ==
  Merge(s, [mapboxApiAccessToken |->
              IF "mapboxApiAccessToken" \in DOMAIN payload
              THEN payload.mapboxApiAccessToken ELSE "undefined"])

\* mapConfigChangeUpdater, lines 213-220
mapConfigChangeUpdater(s, payload) ==
  Merge(Merge(s, payload), getMapStyles(Merge(s, payload)))

\* mutant: the derived fields are recomputed and the active style is kept
mapStyleChangeUpdater_KeepsStyleType(s, styleType) ==
  IF styleType \notin DOMAIN s.mapStyles THEN s
  ELSE
    LET next == Merge(s, [visibleLayerGroups |->
                            mergeLayerGroupVisibility(
                              getDefaultLayerGroupVisibility(s.mapStyles[styleType]),
                              s.visibleLayerGroups)])
    IN  Merge(next, getMapStyles(next))

\* mutant: the new style starts from its default visibility alone
mapStyleChangeUpdater_DropsOverrides(s, styleType) ==
  IF styleType \notin DOMAIN s.mapStyles THEN s
  ELSE
    LET next == Merge(s, [styleType |-> styleType,
                          visibleLayerGroups |->
                            getDefaultLayerGroupVisibility(s.mapStyles[styleType])])
    IN  Merge(next, getMapStyles(next))

\* mapStyleChangeUpdater, lines 231-252
mapStyleChangeUpdater(s, styleType) ==
  IF styleType \notin DOMAIN s.mapStyles THEN s
  ELSE
    LET defaultLGVisibility == getDefaultLayerGroupVisibility(s.mapStyles[styleType])
        visibleLayerGroups ==
          mergeLayerGroupVisibility(defaultLGVisibility, s.visibleLayerGroups)
        next == Merge(s, [styleType |-> styleType,
                          visibleLayerGroups |-> visibleLayerGroups])
    IN  Merge(next, getMapStyles(next))

\* mutant: the active style is re-run after every load
loadMapStylesUpdater_AlwaysStyleChange(s, newStyles) ==
  mapStyleChangeUpdater(Merge(s, [mapStyles |-> Merge(s.mapStyles, newStyles)]),
                        s.styleType)

\* mutant: the loaded styles are merged and the active style is not re-run
loadMapStylesUpdater_NoStyleChange(s, newStyles) ==
  Merge(s, [mapStyles |-> Merge(s.mapStyles, newStyles)])

\* loadMapStylesUpdater, lines 263-278
loadMapStylesUpdater(s, newStyles) ==
  LET newState == Merge(s, [mapStyles |-> Merge(s.mapStyles, newStyles)])
  IN  IF s.styleType \in DOMAIN newStyles
      THEN mapStyleChangeUpdater(newState, s.styleType)
      ELSE newState

\* mutant: the failure falls back to the default style
loadMapStyleErrUpdater_FallsBack(s, error) ==
  Merge(s, [styleType |-> INITIAL_MAP_STYLE.styleType, visibleLayerGroups |-> EmptyObj])

\* loadMapStyleErrUpdater, line 290
loadMapStyleErrUpdater(s, error) == s

\* mutant: the reset keeps the visibility the user had set
resetMapConfigMapStyleUpdater_KeepsVisibility(s) ==
  LET emptyConfig ==
        Merge(INITIAL_MAP_STYLE,
              [mapboxApiAccessToken |-> s.mapboxApiAccessToken,
               mapStyles |-> s.mapStyles,
               visibleLayerGroups |-> s.visibleLayerGroups,
               initialState |-> "undefined"])
  IN  mapStyleChangeUpdater(emptyConfig, emptyConfig.styleType)

\* resetMapConfigMapStyleUpdater, lines 347-357; state.initialState is never
\* an object here, so spreading it adds nothing
resetMapConfigMapStyleUpdater(s) ==
  LET emptyConfig ==
        Merge(INITIAL_MAP_STYLE,
              [mapboxApiAccessToken |-> s.mapboxApiAccessToken,
               mapStyles |-> s.mapStyles,
               initialState |-> IF "initialState" \in DOMAIN s
                                THEN s.initialState ELSE "undefined"])
  IN  mapStyleChangeUpdater(emptyConfig, emptyConfig.styleType)

\* mutant: the resolved fields are laid over a blank inputStyle
loadCustomMapStyleUpdater_ResetsInput(s, payload, hashId) ==
  Merge(s, [inputStyle |->
              Merge(Merge(getInitialInputStyle,
                          IF "style" \in DOMAIN payload
                          THEN [id |-> IF "id" \in DOMAIN payload.style
                                       THEN payload.style.id ELSE hashId,
                                style |-> jsonCopy(payload.style),
                                label |-> payload.style.name,
                                layerGroups |-> getLayerGroupsFromStyle(payload.style)]
                          ELSE EmptyObj),
                    Merge(IF "icon" \in DOMAIN payload
                          THEN [icon |-> payload.icon] ELSE EmptyObj,
                          IF "error" \in DOMAIN payload
                          THEN [error |-> payload.error] ELSE EmptyObj))])

\* loadCustomMapStyleUpdater, lines 371-387 (error: whether an error is given)
loadCustomMapStyleThrows(payload) ==
  "style" \in DOMAIN payload /\ getLayerGroupsFromStyleThrows(payload.style)

loadCustomMapStyleUpdater(s, payload, hashId) ==
  LET styleFields ==
        IF "style" \in DOMAIN payload
        THEN [id |-> IF "id" \in DOMAIN payload.style THEN payload.style.id ELSE hashId,
              style |-> jsonCopy(payload.style),
              label |-> payload.style.name,
              layerGroups |-> getLayerGroupsFromStyle(payload.style)]
        ELSE EmptyObj
      iconFields ==
        IF "icon" \in DOMAIN payload THEN [icon |-> payload.icon] ELSE EmptyObj
      errorFields ==
        IF "error" \in DOMAIN payload THEN [error |-> payload.error] ELSE EmptyObj
  IN  Merge(s, [inputStyle |->
                  Merge(Merge(Merge(s.inputStyle, styleFields), iconFields), errorFields)])

\* inputMapStyleUpdater, lines 404-410
inputMapStyleUpdater(s, inputStyle) ==
  Merge(s, [inputStyle |->
              Merge(inputStyle,
                    [isValid |-> "url" \in DOMAIN inputStyle
                                 /\ isValidStyleUrl(inputStyle.url)])])

\* mutant: the committed inputStyle is left in the staging area
addCustomMapStyleUpdater_KeepsInput(s) ==
  mapStyleChangeUpdater(
    Merge(s, [mapStyles |-> Merge(s.mapStyles, [k \in {s.inputStyle.id} |-> s.inputStyle])]),
    s.inputStyle.id)

\* addCustomMapStyleUpdater, lines 420-433; an inputStyle without id is
\* registered under the key "undefined"
addCustomMapStyleUpdater(s) ==
  LET styleId == IF "id" \in DOMAIN s.inputStyle THEN s.inputStyle.id ELSE "undefined"
      newState == Merge(s, [mapStyles |-> Merge(s.mapStyles, [k \in {styleId} |-> s.inputStyle]),
                            inputStyle |-> getInitialInputStyle])
  IN  mapStyleChangeUpdater(newState, styleId)

\* ------------------------------------------------------- load batches
\* accessToken || state.mapboxApiAccessToken
TokenOf(entry, s) ==
  IF "accessToken" \in DOMAIN entry /\ entry.accessToken \notin {"null", "undefined"}
  THEN entry.accessToken ELSE s.mapboxApiAccessToken

\* lines 306-312: one LOAD_MAP_STYLE_TASK per value of mapStyle.mapStyles
LoadRequests(s, savedMapStyles) ==
  [id \in {savedMapStyles[k].id : k \in DOMAIN savedMapStyles} |->
     LET entry == CHOOSE e \in {savedMapStyles[k] : k \in DOMAIN savedMapStyles} : e.id = id
     IN  getStyleDownloadUrl(entry.url, TokenOf(entry, s))]

\* receiveMapConfigUpdater, lines 300-338: the next state
receiveMapConfigUpdater(s, payload) ==
  IF "mapStyle" \notin DOMAIN payload THEN s
  ELSE mapConfigChangeUpdater(s, payload.mapStyle)

\* receiveMapConfigUpdater, lines 306-330 and 334-337: the batches it issues
receiveMapConfigTasks(s, payload) ==
  IF "mapStyle" \in DOMAIN payload /\ "mapStyles" \in DOMAIN payload.mapStyle
  THEN << [mapStyles |-> payload.mapStyle.mapStyles,
           requests |-> LoadRequests(s, payload.mapStyle.mapStyles)] >>
  ELSE << >>

\* the outcome of one fetch: a document, or a failure
Failed == [kind |-> "failed"]

\* Task.all: the batch fails when any fetch failed, and succeeds with every
\* result otherwise
TaskAllFails(outcomes) == \E id \in DOMAIN outcomes : outcomes[id] = Failed

\* lines 315-326: building the success payload classifies every document
LoadSuccessThrows(outcomes) ==
  \E id \in DOMAIN outcomes : getLayerGroupsFromStyleThrows(outcomes[id])

LoadSuccessPayload(batch, outcomes) ==
  [id \in DOMAIN outcomes |->
     Merge(batch.mapStyles[id],
           [layerGroups |-> getLayerGroupsFromStyle(outcomes[id]),
            style |-> outcomes[id]])]

\* mutant: the documents that did arrive are delivered as a success
TaskFollowUp_Partial(batch, outcomes) ==
  LET arrived == {id \in DOMAIN outcomes : outcomes[id] # Failed}
  IN  IF arrived = {}
      THEN [type |-> "LOAD_MAP_STYLE_ERR", payload |-> EmptyObj]
      ELSE IF \E id \in arrived : getLayerGroupsFromStyleThrows(outcomes[id])
      THEN [type |-> "THROWN", payload |-> EmptyObj]
      ELSE [type |-> "LOAD_MAP_STYLES",
            payload |-> LoadSuccessPayload(batch, [id \in arrived |-> outcomes[id]])]

\* Task.all(...).bimap(success, error), lines 307-329: the one follow-up
\* action of a batch whose fetches ended with these outcomes; a throw while
\* the success payload is built dispatches nothing
TaskFollowUp(batch, outcomes) ==
  IF TaskAllFails(outcomes)
  THEN [type |-> "LOAD_MAP_STYLE_ERR", payload |-> EmptyObj]
  ELSE IF LoadSuccessThrows(outcomes)
  THEN [type |-> "THROWN", payload |-> EmptyObj]
  ELSE [type |-> "LOAD_MAP_STYLES", payload |-> LoadSuccessPayload(batch, outcomes)]

\* mutant: a result is dropped when one of its styles was resolved meanwhile
Reduce_SkipsSuperseded(s, action) ==
  IF action.type = "LOAD_MAP_STYLES"
  THEN IF \E id \in DOMAIN action.payload : Resolved(s.mapStyles, id)
       THEN s
       ELSE loadMapStylesUpdater(s, action.payload)
  ELSE IF action.type = "LOAD_MAP_STYLE_ERR" THEN loadMapStyleErrUpdater(s, action.payload)
  ELSE s

\* the reducer on a follow-up action
Reduce(s, action) ==
  IF action.type = "LOAD_MAP_STYLES" THEN loadMapStylesUpdater(s, action.payload)
  ELSE IF action.type = "LOAD_MAP_STYLE_ERR" THEN loadMapStyleErrUpdater(s, action.payload)
  ELSE s

\* ---------------------------------------------------------------- inputs
PresetLight == CHOOSE curr \in DEFAULT_MAP_STYLES : curr.id = "light"
PresetDark == CHOOSE curr \in DEFAULT_MAP_STYLES : curr.id = "dark"

SavedCustom ==
  [id |-> "c1", label |-> "Custom", url |-> "mapbox://styles/c1",
   accessToken |-> "pk.saved", custom |-> TRUE]

\* mapStyles of a saved config: summaries without their style documents
SavedMapStyles == [c1 |-> SavedCustom, dark |-> PresetDark]

InitPayloads == { [mapboxApiAccessToken |-> "pk.app"] }

VisiblePayloads ==
  { EmptyObj, [label |-> FALSE, border |-> TRUE] }

TopPayloads ==
  { [label |-> TRUE, border |-> TRUE] }

ConfigPayloads ==
  {[visibleLayerGroups |-> v] : v \in VisiblePayloads}
    \cup {[topLayerGroups |-> t] : t \in TopPayloads}
    \cup {[styleType |-> id] : id \in {"dark"}}
    \cup {[styleType |-> "c1", mapStyles |-> SavedMapStyles,
           visibleLayerGroups |-> [label |-> FALSE, border |-> TRUE],
           topLayerGroups |-> [label |-> TRUE, border |-> TRUE]]}

SavedConfigPayloads == {EmptyObj} \cup {[mapStyle |-> c] : c \in ConfigPayloads}

StyleIds == {"light", "dark", "c1", "h1", "undefined"}

\* results of the component's own load of the presets
LoadedPayloads ==
  { [light |-> Merge(PresetLight, [style |-> DocA])],
    [dark |-> Merge(PresetDark, [style |-> DocA])] }

InputStylePayloads ==
  { [url |-> "mapbox://styles/c1"] }

CustomStylePayloads ==
  { [style |-> DocB, icon |-> "icon"], [style |-> DocNoLayers] }

Errors == {"error", "timeout"}

Outcomes(batch) == [DOMAIN batch.requests -> {DocB, DocNoLayers, Failed}]

\* --------------------------------------------------------------- actions
Init ==
  /\ state = INITIAL_MAP_STYLE
  /\ tasks = << >>

InitMapStyle ==
  \E payload \in InitPayloads :
    /\ state' = initMapStyleUpdater(state, payload)
    /\ UNCHANGED tasks

MapConfigChange ==
  \E payload \in ConfigPayloads :
    /\ state' = mapConfigChangeUpdater(state, payload)
    /\ UNCHANGED tasks

MapStyleChange ==
  \E styleType \in StyleIds :
    /\ state' = mapStyleChangeUpdater(state, styleType)
    /\ UNCHANGED tasks

LoadMapStyles ==
  \E newStyles \in LoadedPayloads :
    /\ state' = loadMapStylesUpdater(state, newStyles)
    /\ UNCHANGED tasks

ReceiveMapConfig ==
  \E payload \in SavedConfigPayloads :
    /\ Len(tasks) + Len(receiveMapConfigTasks(state, payload)) <= MaxTasks
    /\ state' = receiveMapConfigUpdater(state, payload)
    /\ tasks' = tasks \o receiveMapConfigTasks(state, payload)

\* a batch in flight completes: every fetch has its outcome, and the one
\* follow-up action of the batch is reduced
TaskComplete ==
  \E i \in 1..Len(tasks) : \E outcomes \in Outcomes(tasks[i]) :
    /\ tasks' = SubSeq(tasks, 1, i - 1) \o SubSeq(tasks, i + 1, Len(tasks))
    /\ state' = Reduce(state, TaskFollowUp(tasks[i], outcomes))

\* the failure action dispatched on its own
LoadMapStyleErr ==
  \E error \in Errors :
  /\ state' = loadMapStyleErrUpdater(state, error)
  /\ UNCHANGED tasks

ResetMapConfig ==
  /\ state' = resetMapConfigMapStyleUpdater(state)
  /\ UNCHANGED tasks

InputMapStyle ==
  \E inputStyle \in InputStylePayloads :
    /\ state' = inputMapStyleUpdater(state, inputStyle)
    /\ UNCHANGED tasks

LoadCustomMapStyle ==
  \E payload \in CustomStylePayloads : \E hashId \in HashIds :
    /\ IF loadCustomMapStyleThrows(payload)
       THEN /\ state' = state
       ELSE /\ state' = loadCustomMapStyleUpdater(state, payload, hashId)
    /\ UNCHANGED tasks

AddCustomMapStyle ==
  /\ "id" \in DOMAIN state.inputStyle
  /\ state' = addCustomMapStyleUpdater(state)
  /\ UNCHANGED tasks

Next ==
  \/ InitMapStyle
  \/ MapConfigChange
  \/ MapStyleChange
  \/ LoadMapStyles
  \/ ReceiveMapConfig
  \/ TaskComplete
  \/ LoadMapStyleErr
  \/ ResetMapConfig
  \/ InputMapStyle
  \/ LoadCustomMapStyle
  \/ AddCustomMapStyle

Spec == Init /\ [][Next]_vars

\* ---------------------------------------------------------------- claims
ActiveResolved == Resolved(state.mapStyles, state.styleType)

\* a derived style is absent or null
NoOutput(s, key) == key \notin DOMAIN s \/ s[key] = Null

\* C1: styleChange(newId), with mapStyles[newId] missing or without a style
\* document, returns the state it was given.
C1_UnresolvedStyleChangeIsNoOp ==
  \A newId \in StyleIds :
    ~Resolved(state.mapStyles, newId) => mapStyleChangeUpdater(state, newId) = state

\* C2: in every reachable state whose active style has no style document,
\* there is neither a bottom nor a top style.
C2_NoOutputWhileUnresolved ==
  ~ActiveResolved => NoOutput(state, "bottomMapStyle") /\ NoOutput(state, "topMapStyle")

C4_MaskingLaw ==
  (ActiveResolved /\ ~NoOutput(state, "topMapStyle")) =>
    LET B == state.visibleLayerGroups
        T == state.topLayerGroups
        topLayers == TopLayers(T, B)
        out == Layers(state.topMapStyle)
    IN  /\ \A g \in DOMAIN T : topLayers[g] = (T[g] /\ g \in DOMAIN B /\ B[g])
        /\ \A i \in 1..Len(out) :
             \A g \in GroupsOfLayer(out[i]) : ~Truthy(B, g) => ~out[i].visible

\* a top style computed with one group shown on top and hidden on the
\* bottom, and another shown on top and not set on the bottom
C4_Witness ==
  /\ ActiveResolved /\ ~NoOutput(state, "topMapStyle")
  /\ \E g \in DOMAIN state.topLayerGroups :
       /\ state.topLayerGroups[g]
       /\ g \in DOMAIN state.visibleLayerGroups
       /\ ~state.visibleLayerGroups[g]
  /\ \E g \in DOMAIN state.topLayerGroups :
       state.topLayerGroups[g] /\ g \notin DOMAIN state.visibleLayerGroups
  /\ \E i \in 1..Len(Layers(state.topMapStyle)) :
       /\ GroupsOfLayer(Layers(state.topMapStyle)[i]) # {}
       /\ ~Layers(state.topMapStyle)[i].visible

\* C5: with the active style resolved and visibleLayerGroups empty, the bottom
\* style equals the raw document of the active style, and recomputing the
\* derived styles leaves mapStyles as it was.
C5_EmptyVisibilityKeepsDocument ==
  ActiveResolved =>
    LET raw == state.mapStyles[state.styleType].style
        recomputed == mapConfigChangeUpdater(state, [visibleLayerGroups |-> EmptyObj])
    IN  /\ DOMAIN state.visibleLayerGroups = {} => state.bottomMapStyle = raw
        /\ recomputed.bottomMapStyle = raw
        /\ recomputed.mapStyles = state.mapStyles

\* a resolved active style shown uncustomized, layers and all
C5_Witness ==
  /\ ActiveResolved
  /\ DOMAIN state.visibleLayerGroups = {}
  /\ state.bottomMapStyle = DocA
  /\ Len(state.bottomMapStyle.layers) > 0

\* the success payloads that can arrive in this state: the component's own
\* loads and the results of the batches in flight
ArrivingPayloads ==
  LoadedPayloads \cup
    UNION {{TaskFollowUp(tasks[i], outcomes).payload :
              outcomes \in {o \in Outcomes(tasks[i]) :
                              TaskFollowUp(tasks[i], o).type = "LOAD_MAP_STYLES"}} :
           i \in 1..Len(tasks)}

\* C6 as stated: stylesLoaded with the active style among the loaded ids gives
\* a bottom style equal to the bottom edit of the loaded document under the
\* default visibility of that style.
C6_LoadedUnderDefaultVisibility ==
  \A newStyles \in ArrivingPayloads :
    state.styleType \in DOMAIN newStyles =>
      LET next == loadMapStylesUpdater(state, newStyles)
          loaded == newStyles[state.styleType]
      IN  /\ ~NoOutput(next, "bottomMapStyle")
          /\ next.bottomMapStyle =
               editBottomMapStyle(state.styleType, loaded,
                                  getDefaultLayerGroupVisibility(loaded))

\* C6 amended: the bottom style is the bottom edit of the loaded document
\* under the default visibility of that style with the prior state's value
\* kept for every group of the style that the prior visibleLayerGroups sets.
C6_LoadedUnderMergedVisibility ==
  \A newStyles \in ArrivingPayloads :
    state.styleType \in DOMAIN newStyles =>
      LET next == loadMapStylesUpdater(state, newStyles)
          loaded == newStyles[state.styleType]
          default == getDefaultLayerGroupVisibility(loaded)
          B == state.visibleLayerGroups
      IN  /\ ~NoOutput(next, "bottomMapStyle")
          /\ next.styleType = state.styleType
          /\ next.bottomMapStyle =
               editBottomMapStyle(state.styleType, loaded,
                                  [g \in DOMAIN default |->
                                     IF g \in DOMAIN B THEN B[g] ELSE default[g]])

\* the active style arrives in a state that overrides its default visibility
C6_Witness ==
  \E newStyles \in ArrivingPayloads :
    /\ state.styleType \in DOMAIN newStyles
    /\ ~ActiveResolved
    /\ \E g \in DOMAIN state.visibleLayerGroups :
         /\ g \in DOMAIN getDefaultLayerGroupVisibility(newStyles[state.styleType])
         /\ state.visibleLayerGroups[g] #
              getDefaultLayerGroupVisibility(newStyles[state.styleType])[g]
    /\ loadMapStylesUpdater(state, newStyles).bottomMapStyle #
         editBottomMapStyle(state.styleType, newStyles[state.styleType],
                            getDefaultLayerGroupVisibility(newStyles[state.styleType]))

\* C7: a batch in which any fetch fails delivers the failure action as its one
\* follow-up, never a success action with the documents that did arrive, and
\* reducing it merges nothing into mapStyles.
C7_LoaderAllOrNothing ==
  \A i \in 1..Len(tasks) : \A outcomes \in Outcomes(tasks[i]) :
    (\E id \in DOMAIN outcomes : outcomes[id] = Failed) =>
      /\ TaskFollowUp(tasks[i], outcomes).type = "LOAD_MAP_STYLE_ERR"
      /\ Reduce(state, TaskFollowUp(tasks[i], outcomes)).mapStyles = state.mapStyles

\* a batch of two fetches is in flight and its entries are still unresolved
C7_Witness ==
  /\ Len(tasks) > 0
  /\ Cardinality(DOMAIN tasks[1].requests) = 2
  /\ \E id \in DOMAIN tasks[1].requests : ~Resolved(state.mapStyles, id)

\* C8: stylesLoadFailed returns the state it was given, whatever the error.
C8_LoadFailureKeepsState ==
  /\ \A error \in Errors : loadMapStyleErrUpdater(state, error) = state
  /\ \A i \in 1..Len(tasks) : \A outcomes \in Outcomes(tasks[i]) :
       TaskFollowUp(tasks[i], outcomes).type = "LOAD_MAP_STYLE_ERR" =>
         Reduce(state, TaskFollowUp(tasks[i], outcomes)) = state

\* a failure can arrive in a state with loaded styles and a batch in flight
C8_Witness ==
  /\ Len(tasks) > 0
  /\ ActiveResolved
  /\ ~NoOutput(state, "bottomMapStyle")

\* C9: no step removes a key of mapStyles.
C9_MapStylesGrowMonotonically ==
  [][DOMAIN state.mapStyles \subseteq DOMAIN state'.mapStyles]_vars

\* C10: commitCustomStyle in a state whose inputStyle has id X registers the
\* former inputStyle as mapStyles[X], makes X the active style and resets
\* inputStyle to its blank defaults.
C10_CommitCustomStyle ==
  "id" \in DOMAIN state.inputStyle =>
    LET X == state.inputStyle.id
        next == addCustomMapStyleUpdater(state)
    IN  /\ X \in DOMAIN next.mapStyles
        /\ next.mapStyles[X] = state.inputStyle
        /\ next.styleType = X
        /\ "id" \notin DOMAIN next.inputStyle
        /\ next.inputStyle.style = Null
        /\ next.inputStyle.url = "null"
        /\ next.inputStyle.isValid = FALSE
        /\ next.inputStyle.custom = TRUE

\* a custom style was committed: it is registered, active and rendered, and
\* inputStyle is blank again
C10_Witness ==
  /\ state.styleType = "c1"
  /\ "c1" \in DOMAIN state.mapStyles
  /\ "isValid" \in DOMAIN state.mapStyles["c1"]
  /\ state.mapStyles["c1"].url = "mapbox://styles/c1"
  /\ state.mapStyles["c1"].style = DocB
  /\ state.inputStyle = getInitialInputStyle
  /\ state.bottomMapStyle = editBottomMapStyle("c1", state.mapStyles["c1"],
                                               state.visibleLayerGroups)

C12_TopOnlyWhenVisibleAfterMasking ==
  (ActiveResolved /\ ~NoOutput(state, "topMapStyle")) =>
    \E g \in DOMAIN state.topLayerGroups :
      state.topLayerGroups[g] /\ Truthy(state.visibleLayerGroups, g)

\* the partial updates of the custom-style dialog
EditedPayloads ==
  InputStylePayloads \cup
    { [url |-> "not a url"], [url |-> "mapbox://styles/c1", id |-> "c1"] }

\* C13: inputStyleEdited(partial) keeps every field of the prior inputStyle
\* that partial does not name, gives the fields partial names their new
\* values and recomputes isValid from the resulting url.
C13_InputStyleEditedMerges ==
  \A partial \in EditedPayloads :
    LET prior == state.inputStyle
        next == inputMapStyleUpdater(state, partial).inputStyle
    IN  /\ \A k \in DOMAIN prior \ (DOMAIN partial \cup {"isValid"}) :
             k \in DOMAIN next /\ next[k] = prior[k]
        /\ \A k \in DOMAIN partial : k \in DOMAIN next /\ next[k] = partial[k]
        /\ next.isValid = ("url" \in DOMAIN next /\ isValidStyleUrl(next.url))

\* a saved entry that carries its style document
SavedDarkResolved ==
  Merge(PresetDark, [style |-> DocA, layerGroups |-> getLayerGroupsFromStyle(DocA)])

\* the mapStyles a saved config may carry: summaries only, one entry already
\* resolved, every entry already resolved
SavedMapStylesInputs ==
  { SavedMapStyles,
    [c1 |-> SavedCustom, dark |-> SavedDarkResolved],
    [dark |-> SavedDarkResolved] }

\* C14: receiveSavedConfig with mapStyle.mapStyles present schedules a download
\* for exactly the entries that lack a style document, and schedules no batch
\* when no entry lacks one.
C14_DownloadsOnlyUnresolvedEntries ==
  \A saved \in SavedMapStylesInputs :
    LET lacking == {k \in DOMAIN saved : ~Resolved(saved, k)}
        batches == receiveMapConfigTasks(state, [mapStyle |-> [mapStyles |-> saved]])
    IN  IF lacking = {}
        THEN batches = << >>
        ELSE /\ Len(batches) = 1
             /\ DOMAIN batches[1].requests = {saved[k].id : k \in lacking}

\* C15: styleChange(newId) with mapStyles[newId] resolved sets styleType to
\* newId and visibleLayerGroups to the default visibility of newId, each group
\* taking the prior state's value when the prior state defines it; groups the
\* new style does not have are absent.
C15_StyleChangeMergesVisibility ==
  \A newId \in StyleIds :
    Resolved(state.mapStyles, newId) =>
      LET next == mapStyleChangeUpdater(state, newId)
          default == getDefaultLayerGroupVisibility(state.mapStyles[newId])
      IN  /\ next.styleType = newId
          /\ DOMAIN next.visibleLayerGroups = DOMAIN default
          /\ \A g \in DOMAIN default :
               next.visibleLayerGroups[g] =
                 IF g \in DOMAIN state.visibleLayerGroups
                 THEN state.visibleLayerGroups[g] ELSE default[g]

\* the custom style is active with its one group, whose default is visible,
\* still hidden by the override saved before it was resolved
C15_Witness ==
  /\ state.styleType = "c1"
  /\ Resolved(state.mapStyles, "c1")
  /\ getDefaultLayerGroupVisibility(state.mapStyles["c1"]) = [label |-> TRUE]
  /\ state.visibleLayerGroups = [label |-> FALSE]
  /\ state = mapStyleChangeUpdater(state, "c1")

\* C16: stylesLoaded(idsToDoc) adds or replaces exactly the entries of
\* mapStyles for the ids of idsToDoc, and when the current styleType is not
\* among those ids every other field of the state is unchanged.
C16_StylesLoadedFrame ==
  \A newStyles \in ArrivingPayloads :
    LET next == loadMapStylesUpdater(state, newStyles)
    IN  /\ DOMAIN next.mapStyles = DOMAIN state.mapStyles \cup DOMAIN newStyles
        /\ \A id \in DOMAIN newStyles : next.mapStyles[id] = newStyles[id]
        /\ \A id \in DOMAIN state.mapStyles \ DOMAIN newStyles :
             next.mapStyles[id] = state.mapStyles[id]
        /\ state.styleType \notin DOMAIN newStyles =>
             /\ DOMAIN next = DOMAIN state
             /\ \A k \in DOMAIN state \ {"mapStyles"} : next[k] = state[k]

\* the dark style was loaded while the active light style, itself resolved,
\* shows under a visibility map that lacks the groups of its default
C16_Witness ==
  /\ state.styleType = "light"
  /\ Resolved(state.mapStyles, "light")
  /\ \E p \in LoadedPayloads :
       "dark" \in DOMAIN p /\ state.mapStyles["dark"] = p["dark"]
  /\ state.visibleLayerGroups = EmptyObj
  /\ ~NoOutput(state, "bottomMapStyle")

\* what a resolved custom style may deliver: a document with or without an
\* id, an icon alone, an error alone
ResolvedPayloads ==
  CustomStylePayloads \cup
    { [icon |-> "icon"], [error |-> TRUE], [style |-> DocA, error |-> FALSE] }

\* the fields of inputStyle a payload supplies
SuppliedFields(payload) ==
  (IF "style" \in DOMAIN payload THEN {"id", "style", "label", "layerGroups"} ELSE {})
    \cup (DOMAIN payload \cap {"icon", "error"})

\* C17: inputStyleResolved changes only inputStyle, and within inputStyle only
\* the fields the payload supplies (id, style, label, layerGroups with a
\* style; icon; error).
C17_InputStyleResolvedFrame ==
  \A payload \in ResolvedPayloads : \A hashId \in HashIds :
    ~loadCustomMapStyleThrows(payload) =>
      LET next == loadCustomMapStyleUpdater(state, payload, hashId)
      IN  /\ DOMAIN next = DOMAIN state
          /\ \A k \in DOMAIN state \ {"inputStyle"} : next[k] = state[k]
          /\ DOMAIN next.inputStyle =
               DOMAIN state.inputStyle \cup SuppliedFields(payload)
          /\ \A k \in DOMAIN state.inputStyle \ SuppliedFields(payload) :
               next.inputStyle[k] = state.inputStyle[k]

\* the dialog holds the edited url and, beside it, the resolved document
C17_Witness ==
  /\ "url" \in DOMAIN state.inputStyle
  /\ state.inputStyle.url = "mapbox://styles/c1"
  /\ state.inputStyle.isValid
  /\ "style" \in DOMAIN state.inputStyle
  /\ state.inputStyle.style = jsonCopy(DocB)
  /\ state.inputStyle.id = "c1"
  /\ state.inputStyle.icon = "icon"
  /\ "c1" \notin DOMAIN state.mapStyles

\* a document whose layers sequence is empty
DocEmptyLayers == [kind |-> "doc", name |-> "E", layers |-> << >>]

MalformedDocs == {DocNoLayers, DocEmptyLayers}

\* C18: a style document with a missing or empty layers sequence never causes
\* a fatal error: classifying it gives the empty layer-group set, and both
\* inputStyleResolved with it and a load batch succeeding with it complete.
C18_MalformedDocumentNeverFatal ==
  \A doc \in MalformedDocs :
    /\ IF getLayerGroupsFromStyleThrows(doc) THEN FALSE
       ELSE getLayerGroupsFromStyle(doc) = {}
    /\ ~loadCustomMapStyleThrows([style |-> doc])
    /\ \A i \in 1..Len(tasks) :
         \A outcomes \in [DOMAIN tasks[i].requests -> {DocB, doc}] :
           TaskFollowUp(tasks[i], outcomes).type = "LOAD_MAP_STYLES"

\* the state t is the state s with a delivered success payload applied
ResultApplied(s, t, payload) ==
  /\ \A id \in DOMAIN payload : t.mapStyles[id] = payload[id]
  /\ \A id \in DOMAIN s.mapStyles \ DOMAIN payload : t.mapStyles[id] = s.mapStyles[id]
  /\ IF s.styleType \in DOMAIN payload
     THEN t = mapStyleChangeUpdater(Merge(s, [mapStyles |-> t.mapStyles]), s.styleType)
     ELSE \A k \in DOMAIN s \ {"mapStyles"} : t[k] = s[k]

\* C19: there is no cancellation. Whatever intents ran since a batch was
\* issued, the batch stays in flight until it is delivered, and its success
\* result is applied on arrival: its entries are written into mapStyles over
\* any entries of the same ids, and styleChange is run when the then-current
\* styleType is among them.
C19_StaleResultStillApplied ==
  /\ [](\A i \in 1..Len(tasks) : \A outcomes \in Outcomes(tasks[i]) :
          LET action == TaskFollowUp(tasks[i], outcomes)
          IN  action.type = "LOAD_MAP_STYLES" =>
                ResultApplied(state, Reduce(state, action), action.payload))
  /\ [][IF Len(tasks') < Len(tasks)
        THEN \E i \in 1..Len(tasks) : \E outcomes \in Outcomes(tasks[i]) :
               /\ tasks' = SubSeq(tasks, 1, i - 1) \o SubSeq(tasks, i + 1, Len(tasks))
               /\ state' = Reduce(state, TaskFollowUp(tasks[i], outcomes))
        ELSE SubSeq(tasks', 1, Len(tasks)) = tasks]_vars

\* a batch is in flight for the dark style, which was loaded and made the
\* active style after the batch was issued, and its delivery overwrites the
\* entry
C19_Witness ==
  /\ Len(tasks) >= 1
  /\ "dark" \in DOMAIN tasks[1].requests
  /\ state.styleType = "dark"
  /\ Resolved(state.mapStyles, "dark")
  /\ state.mapStyles["dark"].style = DocA
  /\ \E outcomes \in Outcomes(tasks[1]) :
       LET action == TaskFollowUp(tasks[1], outcomes)
       IN  /\ action.type = "LOAD_MAP_STYLES"
           /\ Reduce(state, action).mapStyles["dark"].style = DocB
           /\ Reduce(state, action).styleType = "dark"

\* a colour, in units of 1/ColorScale, is a triple of whole channels 0..255
IntegerRgb(c) ==
  \A i \in 1..3 : c[i] % ColorScale = 0 /\ 0 <= c[i] /\ c[i] <= 255 * ColorScale

\* C20: the derived threeDBuildingColor is in every reachable state, and for
\* every resolved style of the registry, a triple of integers within [0,255].
C20_BuildingColorIntegerInRange ==
  /\ "threeDBuildingColor" \in DOMAIN state => IntegerRgb(state.threeDBuildingColor)
  /\ \A id \in DOMAIN state.mapStyles :
       Resolved(state.mapStyles, id) =>
         IntegerRgb(get3DBuildingColor(state.mapStyles[id]))

\* the top-layer toggles a configChange may carry
TopToggles ==
  TopPayloads \cup { [label |-> TRUE], [label |-> FALSE, border |-> TRUE] }

\* C21: whenever the derived styles are recomputed with an empty
\* visibleLayerGroups, topMapStyle is null whatever topLayerGroups holds; a
\* resolved active style shown uncustomized has no top style.
C21_NoTopStyleUntilCustomized ==
  /\ \A top \in TopToggles \cup {state.topLayerGroups} :
       LET s == Merge(state, [visibleLayerGroups |-> EmptyObj, topLayerGroups |-> top])
       IN  Resolved(s.mapStyles, s.styleType) =>
             /\ getMapStyles(s).topMapStyle = Null
             /\ mapConfigChangeUpdater(state, [visibleLayerGroups |-> EmptyObj,
                                               topLayerGroups |-> top]).topMapStyle = Null
  /\ (ActiveResolved /\ DOMAIN state.visibleLayerGroups = {}) =>
       state.topMapStyle = Null

\* top toggles are on over a resolved active style that is not customized,
\* and no top style is stored
C21_Witness ==
  /\ ActiveResolved
  /\ DOMAIN state.visibleLayerGroups = {}
  /\ \E g \in DOMAIN state.topLayerGroups : state.topLayerGroups[g]
  /\ "topMapStyle" \in DOMAIN state
  /\ state.topMapStyle = Null
  /\ state.bottomMapStyle # Null

====
